---- MODULE Spec2Model ----
(***************************************************************************)
(* EXP progression (ExpManager) and the level-up dialog (LevelUpUI).       *)
(*                                                                         *)
(* Python values are encoded as follows:                                   *)
(*   None / a str id           the strings "None", "health", ...           *)
(*   a player attribute        a record field, plus the set `attrs` of the *)
(*                             attribute names the object carries          *)
(*   a float stat (base_speed) an exact fraction speed_num / speed_den     *)
(*   int(x) for x >= 0         integer division (truncation = floor)       *)
(*   hover_index               -2 not set yet, -1 None, else the index     *)
(*   a list                    a sequence (indices from 1)                 *)
(***************************************************************************)
EXTENDS Integers, Sequences, FiniteSets, TLC

\* ------------------------------------------------------------ bounds ----
\* exp_up / level_up are explored while level < MaxLevel
MaxLevel == 3
\* an upgrade is applied to the player while fewer than MaxUpgrades were
MaxUpgrades == 2

\* the growth curve is explored up to level MaxCurveLevel
MaxCurveLevel == 8

\* EXP rewards handed to exp_up
Amounts == {0, 50, 1000}

\* upgrade ids handed to handle_upgrade_choice
UpgradeTypes == {"health", "damage", "speed", "teleport"}

\* clicked positions: the corners of the three buttons, and their nearest
\* neighbours outside (left, right, above, below, in the gaps)
Points ==
    { <<20, 150>>, <<159, 229>>, <<180, 229>>, <<479, 229>>,
      <<19, 150>>, <<160, 150>>, <<339, 200>>, <<480, 229>>,
      <<100, 149>>, <<100, 230>> }

\* hovered positions: over the second button, and over none
HoverPoints == { <<250, 190>>, <<250, 100>> }

\* --------------------------------------------------------- constants ----
\* LevelUpUI.__init__: width of the dialog surface (self.rect.width)
rect_width == 500
\* handle_click: delay of the auto-hide timer, in ms
HIDE_DELAY_MS == 500

\* LevelUpUI.upgrade_choices, in presentation order
upgrade_choices ==
    << [name |-> "Health +1",   description |-> "Increase max health by 1",
        effect |-> "health"],
       [name |-> "Damage +50%", description |-> "Increase damage by 50%",
        effect |-> "damage"],
       [name |-> "Speed +10%",  description |-> "Increase movement speed by 10%",
        effect |-> "speed"] >>

\* the attributes of the player that handle_upgrade_choice reads
StatAttrs == {"health", "max_health", "damage", "base_speed"}

VARIABLES
    \* game_state
    exp, level, level_exp, player,
    \* ExpManager
    level_up_ui,
    \* LevelUpUI
    is_active, choice_made, selected_choice, current_level, visible,
    font, choice_buttons, hover_index,
    \* how many ids handle_click has returned since show_level_up last ran
    ids_since_show,
    \* pygame timer USEREVENT + 1
    timer,
    \* DebugLogger: the last "Damage upgrade: old -> new" line, <<>> if none
    log_damage,
    \* the last call: the method, the value it returned ("None" also when it
    \* raised) and the exception it raised ("none" when it returned)
    called, ret, raised,
    \* how many upgrades handle_upgrade_choice has applied to the player
    n_upgrades

progression == <<exp, level, level_exp>>
dialog == <<is_active, choice_made, selected_choice, current_level, visible,
            font, choice_buttons, hover_index, ids_since_show>>
vars == <<exp, level, level_exp, player, level_up_ui, is_active, choice_made,
          selected_choice, current_level, visible, font, choice_buttons,
          hover_index, ids_since_show, timer, log_damage, called, ret,
          raised, n_upgrades>>

\* ------------------------------------------------------ pure helpers ----
RECURSIVE Pow(_, _)
Pow(b, n) == IF n = 0 THEN 1 ELSE b * Pow(b, n - 1)

\* int(100 * (1.30 ** (lv - 1))): 1.30 is 13/10, int() truncates. From
\* lv = 3 on the factor 100 is cancelled against 10^(lv - 1), which keeps
\* the products within TLC's integers.
calculate_next_exp_rate_on_level(lv) == (100 * Pow(13, lv)) \div Pow(10, lv)
calculate_next_exp(lv) ==
    IF lv >= 3
    THEN Pow(13, lv - 1) \div Pow(10, lv - 3)
    ELSE (100 * Pow(13, lv - 1)) \div Pow(10, lv - 1)

\* ------------------------------------------------------- LevelUpUI ----
\* _calculate_button_positions: one pygame.Rect per upgrade choice
calculate_button_positions ==
    LET button_width   == 140
        button_height  == 80
        button_spacing == 20
        n              == Len(upgrade_choices)
        total_width    == n * button_width + (n - 1) * button_spacing
        start_x        == (rect_width - total_width) \div 2
        button_y       == 150
    IN  [i \in 1..n |->
            [x |-> start_x + (i - 1) * (button_width + button_spacing),
             y |-> button_y, w |-> button_width, h |-> button_height]]

\* pygame.Rect.collidepoint: left/top edges inside, right/bottom edges outside
collidepoint_xonly(r, p) == r.x <= p[1] /\ p[1] < r.x + r.w
collidepoint(r, p) ==
    /\ r.x <= p[1] /\ p[1] < r.x + r.w
    /\ r.y <= p[2] /\ p[2] < r.y + r.h

\* for i, button_rect in enumerate(buttons): the first rect holding p
\* (1-based; 0 when the loop ends without a hit)
RECURSIVE first_hit_from(_, _, _)
first_hit_from(buttons, p, i) ==
    IF i > Len(buttons) THEN 0
    ELSE IF collidepoint(buttons[i], p) THEN i
    ELSE first_hit_from(buttons, p, i + 1)

first_hit(buttons, p) == first_hit_from(buttons, p, 1)

\* the early return shared by update and handle_click
not_clickable_ignores_choice(active, made) == ~active
not_clickable(active, made) == ~active \/ made

\* pygame.time.set_timer(event, millis): armed iff millis > 0
set_timer_never(millis) == FALSE
set_timer(millis) == millis > 0

\* LevelUpUI.is_choice_pending
is_choice_pending_ignores_choice == is_active
is_choice_pending == is_active /\ ~choice_made

\* LevelUpUI.show_level_up (the dialog's own fields)
show_level_up_keeps_choice(lv) ==
    /\ current_level' = lv
    /\ is_active' = TRUE
    /\ visible' = TRUE
    /\ font' = TRUE
    /\ choice_buttons' = calculate_button_positions
    /\ ids_since_show' = 0
    /\ UNCHANGED <<choice_made, selected_choice, hover_index>>
show_level_up(lv) ==
    /\ current_level' = lv
    /\ is_active' = TRUE
    /\ choice_made' = FALSE
    /\ selected_choice' = "None"
    /\ visible' = TRUE
    /\ font' = TRUE
    /\ choice_buttons' = calculate_button_positions
    /\ ids_since_show' = 0
    /\ UNCHANGED hover_index

\* LevelUpUI.hide (the dialog's own fields)
hide_only_invisible ==
    /\ visible' = FALSE
    /\ UNCHANGED <<is_active, choice_made, selected_choice, current_level,
                   font, choice_buttons, hover_index, ids_since_show>>
hide_keeps_choice ==
    /\ visible' = FALSE
    /\ is_active' = FALSE
    /\ UNCHANGED <<choice_made, selected_choice, current_level, font,
                   choice_buttons, hover_index, ids_since_show>>
hide ==
    /\ visible' = FALSE
    /\ is_active' = FALSE
    /\ choice_made' = FALSE
    /\ selected_choice' = "None"
    /\ UNCHANGED <<current_level, font, choice_buttons, hover_index,
                   ids_since_show>>

\* LevelUpUI.update(mouse_pos): hover_index is None (-1) or the button's index
update(mouse_pos) ==
    /\ called' = "update"
    /\ raised' = "none"
    /\ IF not_clickable(is_active, choice_made)
       THEN UNCHANGED hover_index
       ELSE hover_index' = first_hit(choice_buttons, mouse_pos) - 1
    /\ ret' = "None"
    /\ UNCHANGED <<is_active, choice_made, selected_choice, current_level,
                   visible, font, choice_buttons, ids_since_show>>
    /\ UNCHANGED <<progression, player, level_up_ui, timer, log_damage, n_upgrades>>

\* LevelUpUI.handle_click(mouse_pos)
handle_click(mouse_pos) ==
    /\ called' = "handle_click"
    /\ raised' = "none"
    /\ IF not_clickable(is_active, choice_made)
       THEN /\ ret' = "None"
            /\ UNCHANGED <<choice_made, selected_choice, timer,
                           ids_since_show>>
       ELSE LET i == first_hit(choice_buttons, mouse_pos)
            IN  IF i > 0
                THEN /\ choice_made' = TRUE
                     /\ selected_choice' = upgrade_choices[i].effect
                     /\ timer' = set_timer(HIDE_DELAY_MS)
                     /\ ret' = upgrade_choices[i].effect
                     /\ ids_since_show' = ids_since_show + 1
                ELSE /\ ret' = "None"
                     /\ UNCHANGED <<choice_made, selected_choice, timer,
                                    ids_since_show>>
    /\ UNCHANGED <<is_active, current_level, visible, font, choice_buttons,
                   hover_index>>
    /\ UNCHANGED <<progression, player, level_up_ui, log_damage, n_upgrades>>

\* a caller invokes hide
call_hide ==
    /\ called' = "hide"
    /\ raised' = "none"
    /\ hide
    /\ ret' = "None"
    /\ UNCHANGED <<progression, player, level_up_ui, timer, log_damage, n_upgrades>>

\* the USEREVENT + 1 timer set by handle_click expires while the chosen
\* upgrade is on display, and its handler dismisses the dialog
elapsed_display_delay ==
    /\ called' = "elapsed_display_delay"
    /\ raised' = "none"
    /\ timer
    /\ is_active /\ choice_made
    /\ hide
    /\ timer' = FALSE
    /\ ret' = "None"
    /\ UNCHANGED <<progression, player, level_up_ui, log_damage, n_upgrades>>

\* ------------------------------------------------------ ExpManager ----
\* ExpManager.is_level_up, on the EXP and threshold it reads
is_level_up_strict(e, le) == e > le
is_level_up(e, le) == e >= le

\* ExpManager.level_up; cur_exp is game_state.exp when it is called
level_up_carries_over(cur_exp) ==
    /\ exp' = IF cur_exp >= level_exp THEN cur_exp - level_exp ELSE 0
    /\ level' = level + 1
    /\ level_exp' = calculate_next_exp(level + 1)
    /\ IF level_up_ui THEN show_level_up(level + 1) ELSE UNCHANGED dialog
level_up_requires_ui(cur_exp) ==
    IF level_up_ui
    THEN /\ exp' = 0
         /\ level' = level + 1
         /\ level_exp' = calculate_next_exp(level + 1)
         /\ show_level_up(level + 1)
    ELSE UNCHANGED <<progression, dialog>>
level_up_forgets_level(cur_exp) ==
    /\ exp' = 0
    /\ level' = level
    /\ level_exp' = calculate_next_exp(level)
    /\ IF level_up_ui THEN show_level_up(level) ELSE UNCHANGED dialog
level_up(cur_exp) ==
    /\ exp' = 0
    /\ level' = level + 1
    /\ level_exp' = calculate_next_exp(level + 1)
    /\ IF level_up_ui THEN show_level_up(level + 1) ELSE UNCHANGED dialog

\* ExpManager.exp_up(amount)
exp_up(amount) ==
    /\ called' = "exp_up"
    /\ raised' = "none"
    /\ level < MaxLevel \/ ~is_level_up(exp + amount, level_exp)
    /\ IF is_level_up(exp + amount, level_exp)
       THEN level_up(exp + amount)
       ELSE /\ exp' = exp + amount
            /\ UNCHANGED <<level, level_exp>>
            /\ UNCHANGED dialog
    /\ ret' = "None"
    /\ UNCHANGED <<player, level_up_ui, timer, log_damage, n_upgrades>>

\* a caller invokes level_up directly
call_level_up ==
    /\ called' = "level_up"
    /\ raised' = "none"
    /\ level < MaxLevel
    /\ level_up(exp)
    /\ ret' = "None"
    /\ UNCHANGED <<player, level_up_ui, timer, log_damage, n_upgrades>>

\* ExpManager.set_level_up_ui(level_up_ui): the dialog is registered
set_level_up_ui ==
    /\ called' = "set_level_up_ui"
    /\ raised' = "none"
    /\ level_up_ui' = TRUE
    /\ ret' = "None"
    /\ UNCHANGED <<progression, player, dialog, timer, log_damage, n_upgrades>>

\* ExpManager.is_level_up_ui_active
is_level_up_ui_active == level_up_ui /\ is_choice_pending

\* the "health" branch of handle_upgrade_choice
upgrade_health_no_heal(pl) ==
    [pl EXCEPT !.max_health = pl.max_health + 1, !.health = pl.health + 1]
upgrade_health(pl) ==
    [pl EXCEPT !.max_health = pl.max_health + 1, !.health = pl.max_health + 1]

\* the "damage" branch: int(player.damage * 1.1), 1.1 is 11/10
upgrade_damage_additive(pl) ==
    IF "damage" \in pl.attrs
    THEN [pl EXCEPT !.damage = pl.damage + 1]
    ELSE pl
upgrade_damage(pl) ==
    IF "damage" \in pl.attrs
    THEN [pl EXCEPT !.damage = (pl.damage * 11) \div 10]
    ELSE pl

\* the "speed" branch: player.base_speed * 1.1, kept as a fraction
upgrade_speed_touches_damage(pl) ==
    IF "base_speed" \in pl.attrs
    THEN [pl EXCEPT !.speed_num = pl.speed_num * 11,
                    !.speed_den = pl.speed_den * 10,
                    !.damage = pl.damage + 1]
    ELSE pl
upgrade_speed(pl) ==
    IF "base_speed" \in pl.attrs
    THEN [pl EXCEPT !.speed_num = pl.speed_num * 11,
                    !.speed_den = pl.speed_den * 10]
    ELSE pl

\* the if / elif / else chain of handle_upgrade_choice: the player after it
apply_upgrade_else_speed(pl, upgrade_type) ==
    CASE upgrade_type = "health" -> upgrade_health(pl)
      [] upgrade_type = "damage" -> upgrade_damage(pl)
      [] OTHER                   -> upgrade_speed(pl)
apply_upgrade(pl, upgrade_type) ==
    CASE upgrade_type = "health" -> upgrade_health(pl)
      [] upgrade_type = "damage" -> upgrade_damage(pl)
      [] upgrade_type = "speed"  -> upgrade_speed(pl)
      [] OTHER                   -> pl

\* ExpManager.handle_upgrade_choice(upgrade_type)
handle_upgrade_choice(upgrade_type) ==
    /\ called' = "handle_upgrade_choice"
    /\ \/ n_upgrades < MaxUpgrades
       \/ ~player.exists
       \/ ~(StatAttrs \subseteq player.attrs)
       \/ upgrade_type \notin {"health", "damage", "speed"}
    /\ IF ~player.exists
       THEN /\ raised' = "none"
            /\ UNCHANGED <<player, log_damage>>
       ELSE IF ~(StatAttrs \subseteq player.attrs)
       \* the "Current player stats" log line reads all four attributes
       THEN /\ raised' = "AttributeError"
            /\ UNCHANGED <<player, log_damage>>
       ELSE /\ raised' = "none"
            /\ player' = apply_upgrade(player, upgrade_type)
            /\ log_damage' =
                  IF upgrade_type = "damage" /\ "damage" \in player.attrs
                  THEN <<player.damage, player'.damage>>
                  ELSE log_damage
    /\ n_upgrades' = IF player' = player THEN n_upgrades ELSE n_upgrades + 1
    /\ ret' = "None"
    /\ UNCHANGED <<progression, level_up_ui, dialog, timer>>

\* ------------------------------------------------------------ Init ----
\* a player object carrying the attributes `attrs`
Player(attrs, health, max_health, damage) ==
    [exists |-> TRUE, attrs |-> attrs, health |-> health,
     max_health |-> max_health, damage |-> damage,
     speed_num |-> 5, speed_den |-> 1]

\* game_state.player is None
NoPlayer ==
    [exists |-> FALSE, attrs |-> {}, health |-> 0, max_health |-> 0,
     damage |-> 0, speed_num |-> 0, speed_den |-> 1]

Players ==
    {NoPlayer, Player(StatAttrs, 3, 5, 10), Player(StatAttrs, 5, 5, 100)}
    \cup {Player(StatAttrs \ {a}, 3, 5, 10) :
             a \in {"max_health", "damage", "base_speed"}}

\* the game starts at level 1 with no EXP and the threshold of level 1; no
\* dialog is registered yet and the dialog is hidden
Init ==
    /\ exp = 0
    /\ level = 1
    /\ level_exp = 100
    /\ player \in Players
    /\ level_up_ui = FALSE
    /\ is_active = FALSE
    /\ choice_made = FALSE
    /\ selected_choice = "None"
    /\ current_level = 1
    /\ visible = FALSE
    /\ font = FALSE
    /\ choice_buttons = <<>>
    /\ hover_index = -2
    /\ ids_since_show = 0
    /\ timer = FALSE
    /\ log_damage = <<>>
    /\ ret = "None"
    /\ raised = "none"
    /\ called = "__init__"
    /\ n_upgrades = 0

Next ==
    \/ \E amount \in Amounts : exp_up(amount)
    \/ call_level_up
    \/ set_level_up_ui
    \/ \E upgrade_type \in UpgradeTypes : handle_upgrade_choice(upgrade_type)
    \/ \E mouse_pos \in HoverPoints : update(mouse_pos)
    \/ \E mouse_pos \in Points : handle_click(mouse_pos)
    \/ call_hide
    \/ elapsed_display_delay

Spec == Init /\ [][Next]_vars

\* the growth curve alone: level-ups from level 1 up to MaxCurveLevel, with no
\* player and any stage of dialog registration
curve_level_up ==
    /\ called' = "level_up"
    /\ raised' = "none"
    /\ level < MaxCurveLevel
    /\ level_up(exp)
    /\ ret' = "None"
    /\ UNCHANGED <<player, level_up_ui, timer, log_damage, n_upgrades>>

curve_exp_up(amount) ==
    /\ called' = "exp_up"
    /\ raised' = "none"
    /\ level < MaxCurveLevel \/ ~is_level_up(exp + amount, level_exp)
    /\ IF is_level_up(exp + amount, level_exp)
       THEN level_up(exp + amount)
       ELSE /\ exp' = exp + amount
            /\ UNCHANGED <<level, level_exp>>
            /\ UNCHANGED dialog
    /\ ret' = "None"
    /\ UNCHANGED <<player, level_up_ui, timer, log_damage, n_upgrades>>

CurveInit == Init /\ player = NoPlayer

CurveNext ==
    \/ curve_level_up
    \/ \E amount \in Amounts : curve_exp_up(amount)
    \/ set_level_up_ui

CurveSpec == CurveInit /\ [][CurveNext]_vars

\* the timer event is delivered once it is armed
LiveSpec == Spec /\ WF_vars(elapsed_display_delay)


\* the caller keeps handing in EXP: exp_up is called again and again with a
\* positive amount
ProgressSpec == Spec /\ WF_vars(\E amount \in Amounts \ {0} : exp_up(amount))
\* ======================================================== properties ====
\* the three states of the dialog, read off its flags
Hidden == ~is_active
AwaitingChoice == is_active /\ ~choice_made
ChoiceMade == is_active /\ choice_made

\* the ids of the three hit-regions, in order
RegionIds == <<"health", "damage", "speed">>

\* p lies in the rectangle r (right and bottom edges excluded)
InRegion(r, p) ==
    /\ r.x <= p[1] /\ p[1] < r.x + r.w
    /\ r.y <= p[2] /\ p[2] < r.y + r.h

\* p lies in none of the dialog's hit-regions
MissesAll(p) ==
    \A i \in 1..Len(choice_buttons) : ~InRegion(choice_buttons[i], p)

\* the rectangles a and b share no point
Disjoint(a, b) ==
    \/ a.x + a.w <= b.x \/ b.x + b.w <= a.x
    \/ a.y + a.h <= b.y \/ b.y + b.h <= a.y

\* the player carries the four stats that handle_upgrade_choice logs
FullPlayer == player.exists /\ StatAttrs \subseteq player.attrs

\* ---------------------------------------------------------------- C1 ----
\* C1: exp_up(amount) adds amount to exp and then levels up exactly once when
\* the new exp reaches level_exp (level + 1, however large the amount), and
\* not at all otherwise (exp is the sum, level and level_exp are unchanged).
C1_ExpUpSingleStep ==
    [][\A amount \in Amounts :
          exp_up(amount) =>
             IF exp + amount >= level_exp
             THEN level' = level + 1
             ELSE /\ exp' = exp + amount
                  /\ level' = level
                  /\ level_exp' = level_exp]_vars

\* exp_up took level 1 to level 2 and to no higher level
C1_Witness ==
    called = "exp_up" /\ level = 2 /\ exp = 0 /\ level_exp = 130

\* ---------------------------------------------------------------- C2 ----
\* C2: after level_up(), called directly or from exp_up, exp is 0, level is
\* one more than before and level_exp is calculate_next_exp of the new level;
\* the EXP above the old threshold is not carried over.
C2_LevelUpResets ==
    [][(called' \in {"level_up", "exp_up"} /\ level' # level) =>
          /\ exp' = 0
          /\ level' = level + 1
          /\ level_exp' = calculate_next_exp(level')]_vars

\* a second level-up has happened, from exp_up
C2_Witness ==
    called = "exp_up" /\ level = 3 /\ exp = 0 /\ level_exp = 169

\* ---------------------------------------------------------------- C3 ----
\* C3: handle_click returns an id only in AwaitingChoice and for a point in
\* the hit-region of that id, and then the dialog is in ChoiceMade with
\* selected_choice the returned id; it returns None for a point outside all
\* regions and when the dialog is Hidden or ChoiceMade. While the dialog is
\* shown there are three pairwise disjoint regions, mapped in order to
\* health, damage and speed.
C3_RegionsDisjointAndMapped ==
    is_active =>
       /\ Len(choice_buttons) = 3
       /\ \A i, j \in 1..3 :
             i # j => Disjoint(choice_buttons[i], choice_buttons[j])
       /\ \A i \in 1..3 : upgrade_choices[i].effect = RegionIds[i]

C3_ClickStep(p) ==
    handle_click(p) =>
       /\ ret' # "None" =>
             /\ AwaitingChoice
             /\ \E i \in 1..3 :
                   /\ InRegion(choice_buttons[i], p)
                   /\ RegionIds[i] = ret'
             /\ ChoiceMade'
             /\ selected_choice' = ret'
       /\ (~AwaitingChoice \/ MissesAll(p)) => ret' = "None"
       /\ (AwaitingChoice /\ ~MissesAll(p)) => ret' # "None"

C3_HandleClick ==
    /\ []C3_RegionsDisjointAndMapped
    /\ [][called' = "handle_click" => \A p \in Points : C3_ClickStep(p)]_vars

\* a click on the second button returned "damage"
C3_Witness ==
    /\ called = "handle_click" /\ ret = "damage"
    /\ ChoiceMade /\ selected_choice = "damage"

\* ---------------------------------------------------------------- C4 ----
\* C4: show_level_up(level), which a level-up with a registered dialog calls
\* in any dialog state (Hidden, AwaitingChoice or ChoiceMade), leaves the
\* dialog active with no choice made, selected_choice None and current_level
\* the new level; the earlier pending or chosen level-up is replaced.
C4_ShowReplaces ==
    [][(called' \in {"level_up", "exp_up"} /\ level' # level /\ level_up_ui) =>
          /\ is_active' /\ ~choice_made'
          /\ selected_choice' = "None"
          /\ current_level' = level']_vars

\* the dialog of level 3 is awaiting a choice, after a choice was made for an
\* earlier level-up (its timer is still armed)
C4_Witness ==
    /\ called \in {"level_up", "exp_up"} /\ level_up_ui /\ timer
    /\ AwaitingChoice /\ selected_choice = "None"
    /\ current_level = 3 /\ level = 3

\* ---------------------------------------------------------------- C5 ----
\* C5: a click that misses the three hit-regions while the dialog is in
\* AwaitingChoice changes none of is_active, choice_made, selected_choice and
\* current_level: the dialog stays in AwaitingChoice for the same level.
C5_MissChangesNothing ==
    [][(called' = "handle_click" /\ AwaitingChoice) =>
          \A p \in Points :
             (handle_click(p) /\ MissesAll(p)) =>
                /\ UNCHANGED <<is_active, choice_made, selected_choice,
                               current_level>>
                /\ AwaitingChoice']_vars

\* a click returned None while the dialog is awaiting a choice
C5_Witness ==
    called = "handle_click" /\ ret = "None" /\ AwaitingChoice

\* ---------------------------------------------------------------- C6 ----
\* C6: the dialog never stays in ChoiceMade forever: every ChoiceMade state
\* is followed by Hidden or by a fresh AwaitingChoice.
C6_ChoiceMadeIsDismissed == ChoiceMade ~> (Hidden \/ AwaitingChoice)

\* the display delay elapsed and the dialog is hidden
C6_Witness ==
    called = "elapsed_display_delay" /\ Hidden /\ ~timer

\* ---------------------------------------------------------------- C7 ----
\* C7: is_level_up_ui_active() is true exactly when a dialog is registered
\* and in AwaitingChoice (false with no dialog, when Hidden, when ChoiceMade),
\* and right after a level-up with a registered dialog it is true.
C7_ActiveIffAwaiting ==
    /\ [](is_level_up_ui_active <=> (level_up_ui /\ AwaitingChoice))
    /\ [](Hidden \/ ChoiceMade \/ ~level_up_ui => ~is_level_up_ui_active)
    /\ [][(called' \in {"level_up", "exp_up"} /\ level' # level
           /\ level_up_ui) => is_level_up_ui_active']_vars

\* right after a level-up with a registered dialog
C7_Witness ==
    called = "exp_up" /\ level = 2 /\ level_up_ui /\ is_level_up_ui_active

\* ---------------------------------------------------------------- C8 ----
\* C8: handle_upgrade_choice("health") on a player (carrying the four stats)
\* with health <= max_health raises max_health by exactly 1 and sets health
\* to the new max_health.
C8_HealthUpgrade ==
    [][(handle_upgrade_choice("health") /\ FullPlayer
        /\ player.health <= player.max_health) =>
          /\ player'.max_health = player.max_health + 1
          /\ player'.health = player'.max_health]_vars

\* max_health = 5, health = 3 became max_health = 6, health = 6
C8_Witness ==
    /\ called = "handle_upgrade_choice" /\ n_upgrades = 1
    /\ player.max_health = 6 /\ player.health = 6 /\ player.damage = 10

\* ---------------------------------------------------------------- C9 ----
\* r is floor(d * 11/10)
IsFloorMul(d, r) == 10 * r <= 11 * d /\ 11 * d < 10 * (r + 1)

\* C9: handle_upgrade_choice("damage") sets damage to floor(damage * m) for
\* the one multiplier m = 1.1, and a second application compounds: its result
\* is floor(floor(d * m) * m) for the damage d before the first one.
C9_DamageCompounds ==
    [][(handle_upgrade_choice("damage") /\ FullPlayer) =>
          /\ IsFloorMul(player.damage, player'.damage)
          /\ log_damage' = <<player.damage, player'.damage>>
          /\ log_damage # <<>> =>
                /\ log_damage[2] = player.damage
                /\ \E r \in 0..(2 * log_damage[1]) :
                      /\ IsFloorMul(log_damage[1], r)
                      /\ IsFloorMul(r, player'.damage)]_vars

\* 100 -> 110 -> 121, where adding the first bonus twice would give 120
C9_Witness ==
    /\ called = "handle_upgrade_choice"
    /\ log_damage = <<110, 121>> /\ player.damage = 121

\* --------------------------------------------------------------- C10 ----
\* C10: the damage upgrade multiplies by 1.5 ("Damage +50%"): damage becomes
\* floor(damage * 3/2), so 10 becomes 15 and 15 becomes 22.
C10_DamagePlusHalf ==
    [][(handle_upgrade_choice("damage") /\ FullPlayer) =>
          /\ 2 * player'.damage <= 3 * player.damage
          /\ 3 * player.damage < 2 * (player'.damage + 1)]_vars

\* --------------------------------------------------------------- C11 ----
\* C11: handle_upgrade_choice with an id other than "health", "damage" and
\* "speed" returns normally and changes no player stat and nothing of the
\* progression state (for a player carrying the four stats, or no player).
C11_UnknownIdIsNoOp ==
    [][(handle_upgrade_choice("teleport") /\ (FullPlayer \/ ~player.exists)) =>
          /\ raised' = "none"
          /\ ret' = "None"
          /\ UNCHANGED <<player, progression>>]_vars

\* a call on a player with all stats that applied no upgrade
C11_Witness ==
    /\ called = "handle_upgrade_choice" /\ raised = "none"
    /\ FullPlayer /\ n_upgrades = 0
    /\ player.damage = 10 /\ player.max_health = 5 /\ player.speed_den = 1

\* --------------------------------------------------------------- C12 ----
\* C12: when the player lacks a stat attribute, handle_upgrade_choice skips
\* the upgrade and returns normally, for every id, with the player unchanged.
C12_MissingStatIsSkipped ==
    [][\A upgrade_type \in UpgradeTypes :
          (handle_upgrade_choice(upgrade_type) /\ player.exists
           /\ ~FullPlayer) =>
             /\ raised' = "none"
             /\ player' = player]_vars

\* --------------------------------------------------------------- C13 ----
\* C13: with no dialog registered a level-up (direct or from exp_up) still
\* sets exp to 0, adds 1 to level and recomputes level_exp, leaves the dialog
\* alone and raises nothing; with no player, handle_upgrade_choice returns
\* normally for every id and changes no state.
C13_LevelUpWithoutDialog ==
    (~level_up_ui /\ level < MaxLevel) =>
       /\ exp' = 0
       /\ level' = level + 1
       /\ level_exp' = calculate_next_exp(level + 1)
       /\ raised' = "none"
       /\ UNCHANGED <<dialog, player>>

C13_MissingCollaborator ==
    /\ [][call_level_up => C13_LevelUpWithoutDialog]_vars
    /\ [][\A amount \in Amounts :
             (exp_up(amount) /\ exp + amount >= level_exp) =>
                C13_LevelUpWithoutDialog]_vars
    /\ [][\A upgrade_type \in UpgradeTypes :
             (handle_upgrade_choice(upgrade_type) /\ ~player.exists) =>
                /\ raised' = "none"
                /\ UNCHANGED <<player, progression, dialog, level_up_ui,
                               timer, log_damage, n_upgrades>>]_vars

\* two level-ups happened with no dialog registered and no player
C13_Witness ==
    /\ called \in {"level_up", "exp_up"} /\ level = 3 /\ exp = 0
    /\ ~level_up_ui /\ ~is_active /\ ~font /\ ~player.exists

\* --------------------------------------------------------------- C14 ----
\* r is floor(100 * 1.30^(lv - 1))
IsCurveValue(lv, r) ==
    IF lv >= 3
    THEN /\ Pow(10, lv - 3) * r <= Pow(13, lv - 1)
         /\ Pow(13, lv - 1) < Pow(10, lv - 3) * (r + 1)
    ELSE /\ Pow(10, lv - 1) * r <= 100 * Pow(13, lv - 1)
         /\ 100 * Pow(13, lv - 1) < Pow(10, lv - 1) * (r + 1)

\* C14: calculate_next_exp(lv) is floor(100 * 1.30^(lv - 1)) and does not
\* decrease with lv, for every level reached; calculate_next_exp(1) is 100
\* and calculate_next_exp(2) is 130; level_exp is that value for the level.
C14_GrowthCurve ==
    /\ calculate_next_exp(1) = 100
    /\ calculate_next_exp(2) = 130
    /\ IsCurveValue(level, level_exp)
    /\ \A lv \in 1..level :
          /\ IsCurveValue(lv, calculate_next_exp(lv))
          /\ \A lower \in 1..lv :
                calculate_next_exp(lower) <= calculate_next_exp(lv)

\* level 8 was reached through level_up: its threshold is floor(100 * 1.3^7)
C14_Witness ==
    called \in {"level_up", "exp_up"} /\ level = 8 /\ level_exp = 627

\* --------------------------------------------------------------- C15 ----
\* C15: hide() takes the dialog to Hidden from any of its states: after it
\* is_active and choice_made are false, selected_choice is None and
\* is_choice_pending() is false; while Hidden every handle_click returns None
\* and leaves the dialog Hidden, and only a level-up that shows the dialog
\* ends Hidden.
C15_HideForcesHidden ==
    /\ [][call_hide =>
             /\ ~is_active' /\ ~choice_made'
             /\ selected_choice' = "None"
             /\ ~is_choice_pending']_vars
    /\ [][(called' = "handle_click" /\ Hidden) =>
             \A p \in Points :
                handle_click(p) =>
                   /\ ret' = "None"
                   /\ Hidden' /\ ~choice_made'
                   /\ selected_choice' = "None"]_vars
    /\ [][(Hidden /\ ~Hidden') =>
             /\ called' \in {"level_up", "exp_up"}
             /\ level_up_ui /\ level' = level + 1
             /\ current_level' = level']_vars

\* hide() was called while the chosen upgrade was on display (the timer set
\* by the click is still armed)
C15_Witness ==
    /\ called = "hide" /\ Hidden /\ ~choice_made /\ selected_choice = "None"
    /\ font /\ timer /\ ids_since_show = 1

\* --------------------------------------------------------------- C16 ----
\* C16: progression never gets stuck: below the level bound exp_up can be
\* called in every reachable state, whatever the dialog, the player and the
\* last upgrade's outcome are; a call with a positive amount raises exp or
\* level; and under repeated calls with positive amounts every level is
\* eventually left for a higher one.
C16_ProgressionNeverStuck ==
    /\ [](level < MaxLevel => \A amount \in Amounts : ENABLED exp_up(amount))
    /\ [][\A amount \in Amounts \ {0} :
             exp_up(amount) =>
                \/ level' = level + 1
                \/ level' = level /\ exp' > exp]_vars
    /\ \A n \in 1..(MaxLevel - 1) : (level = n) ~> (level > n)

\* exp_up levelled up although a chosen upgrade's timer was still armed and
\* the player is one on which upgrades fail
C16_Witness ==
    /\ called = "exp_up" /\ level > 2 /\ exp = 0
    /\ timer /\ AwaitingChoice
    /\ player.exists /\ ~FullPlayer

\* --------------------------------------------------------------- C17 ----
\* pl differs from the player at most in the stats health and max_health
OnlyHealthChanged(pl) ==
    [pl EXCEPT !.health = player.health,
               !.max_health = player.max_health] = player

\* pl differs from the player at most in the stat damage
OnlyDamageChanged(pl) == [pl EXCEPT !.damage = player.damage] = player

\* pl differs from the player at most in the stat base_speed
OnlySpeedChanged(pl) ==
    [pl EXCEPT !.speed_num = player.speed_num,
               !.speed_den = player.speed_den] = player

\* a step of update, handle_click or hide
C17_DialogStep ==
    \/ called' = "update" /\ \E p \in HoverPoints : update(p)
    \/ called' = "handle_click" /\ \E p \in Points : handle_click(p)
    \/ called' = "hide" /\ call_hide

\* a step of level_up, which is where show_level_up is called
C17_ShowStep ==
    /\ called' \in {"level_up", "exp_up"}
    /\ call_level_up \/ \E amount \in Amounts : exp_up(amount)

\* C17: update, handle_click and hide change neither the player nor exp,
\* level and level_exp; showing the dialog on a level-up does not change the
\* player; handle_upgrade_choice changes neither exp, level, level_exp nor
\* the dialog; "health" changes at most health and max_health, "damage" at
\* most damage, "speed" at most base_speed, any other id nothing of the
\* player.
C17_SingleWriter ==
    /\ [][C17_DialogStep => UNCHANGED <<player, progression>>]_vars
    /\ [][C17_ShowStep => player' = player]_vars
    /\ [][\A upgrade_type \in UpgradeTypes :
             handle_upgrade_choice(upgrade_type) =>
                /\ UNCHANGED <<progression, dialog>>
                /\ CASE upgrade_type = "health" -> OnlyHealthChanged(player')
                     [] upgrade_type = "damage" -> OnlyDamageChanged(player')
                     [] upgrade_type = "speed"  -> OnlySpeedChanged(player')
                     [] OTHER                   -> player' = player]_vars

\* one "speed" upgrade was applied: base_speed is 5 * 1.1, the other stats
\* are the initial ones
C17_Witness ==
    /\ called = "handle_upgrade_choice" /\ n_upgrades = 1 /\ FullPlayer
    /\ player.speed_num = 55 /\ player.speed_den = 10
    /\ player.damage = 10 /\ player.health = 3 /\ player.max_health = 5

\* --------------------------------------------------------------- C18 ----
\* C18: from level 1, exp 0, level_exp 100, after any sequence of exp_up
\* calls with non-negative amounts, interleaved with dialog and upgrade
\* operations, 0 <= exp < level_exp, level >= 1 and level_exp is
\* calculate_next_exp(level); level never decreases.
C18_ProgressionInvariant ==
    /\ [](/\ 0 <= exp /\ exp < level_exp
          /\ level >= 1
          /\ level_exp = calculate_next_exp(level))
    /\ [][level' >= level]_vars

\* at level 3, three exp_up(50) after the last level-up, with an upgrade
\* applied and the dialog shown on the way
C18_Witness ==
    /\ called = "exp_up" /\ level = 3 /\ exp = 150 /\ level_exp = 169
    /\ n_upgrades > 0 /\ font

\* --------------------------------------------------------------- C19 ----
\* C19: at most one upgrade id is handed out per shown level-up.
\* ids_since_show counts the ids handle_click has returned since the last
\* show_level_up: it never exceeds 1 and is 0 while the dialog was never
\* shown; handle_click returns an id only from AwaitingChoice with none
\* handed out yet, and every click while the chosen upgrade is on display
\* returns None.
C19_OneIdPerShow ==
    /\ [](/\ ids_since_show <= 1
          /\ ~font => ids_since_show = 0
          /\ ChoiceMade => ids_since_show = 1)
    /\ [][(called' = "handle_click" /\ \E p \in Points : handle_click(p)) =>
             /\ ret' # "None" =>
                   /\ AwaitingChoice /\ ids_since_show = 0
                   /\ ChoiceMade' /\ ids_since_show' = 1
             /\ ~AwaitingChoice => ret' = "None"]_vars

\* a second click on a button while the chosen upgrade is on display
\* returned None: still one id since the dialog was shown
C19_Witness ==
    /\ called = "handle_click" /\ ret = "None"
    /\ ChoiceMade /\ timer /\ ids_since_show = 1

\* --------------------------------------------------------------- C20 ----
\* C20: the dialog's flags always encode Hidden, AwaitingChoice or
\* ChoiceMade: choice_made implies is_active, and selected_choice is one of
\* "health", "damage", "speed" exactly when choice_made is true and None
\* otherwise.
C20_FlagsEncodeState ==
    /\ choice_made => is_active
    /\ choice_made <=> selected_choice \in {"health", "damage", "speed"}
    /\ ~choice_made => selected_choice = "None"

\* the dialog is in ChoiceMade with "speed" chosen, after a level-up that
\* replaced an earlier dismissed dialog
C20_Witness ==
    /\ called = "handle_click" /\ ChoiceMade /\ selected_choice = "speed"
    /\ ret = "speed" /\ current_level = 3

====
